---- MODULE Spec2Model ----
(***************************************************************************)
(* Model of the ancillary-data layer of interprocess:                      *)
(*   src/src/error.rs                       ConversionError                *)
(*   src/src/os/unix/udsocket/stream.rs     UdStream                       *)
(*   src/src/os/unix/udsocket/cmsg/context.rs  Collector                   *)
(*   src/tests/udsocket/credentials.rs      the credentials exchange       *)
(*                                                                         *)
(* Five specifications share the module:                                   *)
(*   SpecErr   the life of one ConversionError value                       *)
(*   Spec      one connection: connect, send and receive with credentials, *)
(*             the socket options, close                                   *)
(*   SpecShut  one connection: connect, send and receive, shutdown, close  *)
(*   SpecColl  one IterCollector and the hook calls made on it             *)
(*   SpecBuf   one ancillary buffer: add_message, clear, decode            *)
(***************************************************************************)
EXTENDS Integers, Sequences, FiniteSets, TLC

(***************************************************************************)
(* Bounds                                                                  *)
(***************************************************************************)
\* resources (file descriptors) are 0..MaxRes
MaxRes == 1
\* map_source / try_map_source calls applied to one error value
MaxMaps == 2
\* send calls one stream makes
MaxSends == 2
\* bytes of main data in one send call
MaxMsg == 2
\* capacity of the data buffer handed to a receive call (1..MaxBuf)
MaxBuf == 2
\* credentials records the ancillary buffer of a receive call has room for (0..MaxAnc)
MaxAnc == 1
\* collectors in the collection of an IterCollector (0..MaxItems)
MaxItems == 3
\* hook calls made on one IterCollector
MaxHookCalls == 3
\* records added to one ancillary buffer before it is cleared
MaxRecs == 2
\* bytes in the payload of one record (0..MaxPayload)
MaxPayload == 2

\* Option<T>: None is the empty sequence, Some(x) the one-element sequence.
None == << >>
Some(x) == << x >>
IsSome(o) == Len(o) = 1
Unwrap(o) == o[1]

(***************************************************************************)
(* error.rs : ConversionError<S, E>                                        *)
(***************************************************************************)
VARIABLES
    err,        \* the error value: NoErr, or [details, cause, source]
    passed,     \* the resource handed to the constructor of err
    nmaps,      \* map_source / try_map_source calls applied to err so far
    errOp,      \* the last operation on err: [op, before, f, out]
    dropped     \* resources destroyed while owned by an error value

errVars == << err, passed, nmaps, errOp, dropped >>

NoErr == [absent |-> TRUE]
Res == 0 .. MaxRes

\* values of the details parameter E; NoDetails is the Default of line 142
Details == {"NoDetails", "Blank", "Phase"}
DefaultDetails == "NoDetails"
\* io::Error causes
Causes == {"ENOENT", "EPERM"}

\* the closures handed to map_source and to try_map_source
MapFns == [Res -> Res]
TryMapFns == [Res -> {None} \cup {Some(r) : r \in Res}]

\* Option::map and Option::and_then, which lines 60 and 71 call on the field
OptMap(o, f) == IF IsSome(o) THEN Some(f[Unwrap(o)]) ELSE None
OptAndThen(o, f) == IF IsSome(o) THEN f[Unwrap(o)] ELSE None

from_source_and_cause_lossy(source, cause) ==
    [source |-> None, cause |-> Some(cause), details |-> DefaultDetails]
from_source_and_cause(source, cause) ==
    [source |-> Some(source), cause |-> Some(cause), details |-> DefaultDetails]

from_source_and_details(source, details) ==
    [source |-> Some(source), cause |-> None, details |-> details]

from_source(source) ==
    [source |-> Some(source), cause |-> None, details |-> DefaultDetails]

\* the struct literal: all three fields are pub (lines 26-33)
from_fields(source, details, cause) ==
    [source |-> Some(source), cause |-> cause, details |-> details]

map_source_nocause(e, f) ==
    [source |-> OptMap(e.source, f), cause |-> None, details |-> e.details]
map_source(e, f) ==
    [source |-> OptMap(e.source, f), cause |-> e.cause, details |-> e.details]

try_map_source(e, f) ==
    [source |-> OptAndThen(e.source, f), cause |-> e.cause, details |-> e.details]

\* Text is a sequence of characters.
\* What the Display of a details value hands to write_str, call by call.
DetailsChunks(d) ==
    CASE d = "NoDetails" -> << >>
      [] d = "Blank"     -> << << >> >>
      [] d = "Phase"     -> << <<"b">>, << >>, <<"i", "n", "d">> >>

\* Display of io::Error
CauseText(c) ==
    CASE c = "ENOENT" -> <<"E", "2">>
      [] c = "EPERM"  -> <<"E", "1">>

RECURSIVE SnoopWrite(_, _)
\* FormatSnooper::write_str over the chunks: [out, anything_written]
SnoopWrite(chunks, st) ==
    IF chunks = << >> THEN st
    ELSE SnoopWrite(Tail(chunks),
                    IF Head(chunks) # << >>
                    THEN [out |-> st.out \o Head(chunks), anything_written |-> TRUE]
                    ELSE st)

fmt_always_separated(e) ==
    LET snp == SnoopWrite(DetailsChunks(e.details),
                          [out |-> << >>, anything_written |-> FALSE])
    IN  IF IsSome(e.cause)
        THEN snp.out \o <<":", " ">> \o CauseText(Unwrap(e.cause))
        ELSE snp.out
\* impl Display for ConversionError
fmt(e) ==
    LET snp == SnoopWrite(DetailsChunks(e.details),
                          [out |-> << >>, anything_written |-> FALSE])
    IN  IF IsSome(e.cause)
        THEN (IF snp.anything_written THEN snp.out \o <<":", " ">> ELSE snp.out)
             \o CauseText(Unwrap(e.cause))
        ELSE snp.out

to_io_error(e) == [kind |-> "Other", msg |-> fmt(e)]

(***************************************************************************)
(* stream.rs : UdStream, one connection.                                   *)
(* "c" is the stream UdStream::connect builds, "s" the stream on the other *)
(* end (From<OwnedFd>, line 260).  Each stream has one owner, which has at *)
(* most one call in flight on it.  In one run data flows one way: the end  *)
(* rcvr receives what the other end sends.  The socket calls are modelled  *)
(* by their effect on the two sockets (socket(2), recvmsg(2), sendmsg(2),  *)
(* shutdown(2), unix(7)).  Data buffers are not empty.                     *)
(***************************************************************************)
VARIABLES
    platform,   \* the credentials wire shape of the build: "ucred" | "cmsgcred"
    rcvr,       \* the end that receives in this run; the other end sends
    pc,         \* per stream: where its owner is
    fd,         \* per stream: the descriptor, "none" | "open" | "closed"
    passcred,   \* per socket: the "pass sender credentials" option
    nonblock,   \* per socket: O_NONBLOCK
    nbMode,     \* per stream: the mode its owner last set successfully
    shut,       \* per socket: directions shut down, subset of {"rd", "wr"}
    rxq,        \* the receive queue of rcvr's socket, a sequence of segments
    nsent,      \* send calls made by the sending end
    sent,       \* bytes the sending end has written to the socket
    rlog,       \* the bytes rcvr's receive calls returned, in order
    pend,       \* the buffers of rcvr's receive call while it is suspended
    last,       \* the outcome of the last call that returned, and whose it was
    eofSeen,    \* a receive call of rcvr has returned Ok with zero bytes
    coll        \* the state of the collector rcvr's owner supplies

strmVars == << platform, rcvr, pc, fd, passcred, nonblock, nbMode, shut, rxq,
               nsent, sent, rlog, pend, last, eofSeen, coll >>

(***************************************************************************)
(* cmsg/context.rs : IterCollector over a collection of collectors         *)
(***************************************************************************)
VARIABLES
    iterc,      \* the IterCollector: None, or Some(the sequence of its collectors)
    hooks,      \* the hook calls the last call on iterc made, in order
    collOp,     \* the last call on iterc: [op, flags, before]
    ncalls      \* hook calls made on iterc so far

collVars == << iterc, hooks, collOp, ncalls >>

(***************************************************************************)
(* The ancillary buffer the test composes and decodes (CmsgVecBuf)         *)
(***************************************************************************)
VARIABLES
    cbuf,       \* the bytes of the buffer that are in use
    added,      \* the records added since the buffer was new or cleared
    decoded,    \* what the last decode over the read view yielded
    cbufOp      \* the last operation on the buffer

bufVars == << cbuf, added, decoded, cbufOp >>

cmsgVars == << collVars, bufVars >>

(***************************************************************************)
(* The operations on one ConversionError value                             *)
(***************************************************************************)
NoOp == [f |-> None, out |-> None, op |-> "none", before |-> NoErr]

InitErr ==
    /\ err = NoErr
    /\ passed = None
    /\ nmaps = 0
    /\ errOp = NoOp
    /\ dropped = {}

Construct(e, s, name) ==
    /\ err = NoErr
    /\ err' = e
    /\ passed' = Some(s)
    /\ nmaps' = 0
    /\ errOp' = [f |-> None, out |-> None, op |-> name, before |-> NoErr]
    /\ UNCHANGED << dropped, strmVars, cmsgVars >>

FromSourceAndCause ==
    \E s \in Res, c \in Causes :
        Construct(from_source_and_cause(s, c), s, "from_source_and_cause")

FromSourceAndDetails ==
    \E s \in Res, d \in Details :
        Construct(from_source_and_details(s, d), s, "from_source_and_details")

FromSource ==
    \E s \in Res : Construct(from_source(s), s, "from")

FromFields ==
    \E s \in Res, d \in Details, c \in {None} \cup {Some(x) : x \in Causes} :
        Construct(from_fields(s, d, c), s, "literal")

\* the resources the closure itself consumed without handing one back
LostIn(before, after) ==
    IF IsSome(before.source) /\ ~IsSome(after.source)
    THEN {Unwrap(before.source)} ELSE {}

MapSource ==
    /\ err # NoErr
    /\ nmaps < MaxMaps
    /\ \E f \in MapFns :
        /\ err' = map_source(err, f)
        /\ errOp' = [f |-> Some(f), out |-> None, op |-> "map_source", before |-> err]
    /\ nmaps' = nmaps + 1
    /\ UNCHANGED << passed, dropped, strmVars, cmsgVars >>

TryMapSource ==
    /\ err # NoErr
    /\ nmaps < MaxMaps
    /\ \E f \in TryMapFns :
        /\ err' = try_map_source(err, f)
        /\ errOp' = [f |-> Some(f), out |-> None, op |-> "try_map_source", before |-> err]
        /\ dropped' = dropped \cup LostIn(err, try_map_source(err, f))
    /\ nmaps' = nmaps + 1
    /\ UNCHANGED << passed, strmVars, cmsgVars >>

\* to_io_error(&self): borrows the error
ToIoError ==
    /\ err # NoErr
    /\ errOp' = [f |-> None, out |-> Some(to_io_error(err)), op |-> "to_io_error",
                 before |-> err]
    /\ UNCHANGED << err, passed, nmaps, dropped, strmVars, cmsgVars >>

\* From<ConversionError<S, E>> for io::Error: consumes the error, and the
\* retained resource with it
IntoIoError ==
    /\ err # NoErr
    /\ errOp' = [f |-> None, out |-> Some(to_io_error(err)), op |-> "into_io_error",
                 before |-> err]
    /\ err' = NoErr
    /\ passed' = None
    /\ nmaps' = 0
    /\ dropped' = dropped \cup (IF IsSome(err.source) THEN {Unwrap(err.source)} ELSE {})
    /\ UNCHANGED << strmVars, cmsgVars >>

NextErr ==
    \/ FromSourceAndCause
    \/ FromSourceAndDetails
    \/ FromSource
    \/ FromFields
    \/ MapSource
    \/ TryMapSource
    \/ ToIoError
    \/ IntoIoError

Ends == {"c", "s"}
Peer(e) == IF e = "c" THEN "s" ELSE "c"

\* the processes at the two ends: pid, real uid, real gid
Ident == [c |-> [pid |-> 11, uid |-> 21, gid |-> 31],
          s |-> [pid |-> 12, uid |-> 22, gid |-> 32]]

\* Credentials: the wire shapes and what pid(), best_effort_ruid() and
\* best_effort_rgid() read from them
UCred(p) == [pid |-> Some(Ident[p].pid), shape |-> "ucred",
             ruid |-> Ident[p].uid, rgid |-> Ident[p].gid]
CmsgCred(p) == [pid |-> Some(Ident[p].pid), shape |-> "cmsgcred",
                ruid |-> Ident[p].uid, rgid |-> Ident[p].gid]
SockCred(p) == [pid |-> None, shape |-> "sockcred",
                ruid |-> Ident[p].uid, rgid |-> Ident[p].gid]
\* what a ucred receiver is handed for data that was queued without credentials
NobodyCred == [pid |-> Some(0), shape |-> "ucred", ruid |-> 65534, rgid |-> 65534]

\* the width of usize, scaled down
UsizeMod == 65536
\* `result as usize` (lines 92, 121)
AsUsize(r) == r % UsizeMod

\* ok_or_ret_errno!(success => value)
OkOrRetErrno(success, value, errno) ==
    IF success THEN [err |-> "none", ok |-> TRUE, val |-> value]
    ELSE [err |-> errno, ok |-> FALSE, val |-> << >>]

\* The outcome of a call as its caller and the kernel saw it:
\*   ok, val, err   the io::Result returned
\*   events         what the body called, in order
\*   raw, errno     the value the system call returned and its errno
\*   flags, rec     msg_flags and the ancillary records written to the buffer
\*   cap, acap, how the arguments
NoCall == [err |-> "none", op |-> "none", errno |-> "none", ok |-> TRUE, val |-> << >>,
           who |-> "none", events |-> << >>, raw |-> 0, flags |-> {},
           rec |-> None, cap |-> 0, acap |-> 0, how |-> "none"]

Call(who, op, res, x) ==
    x @@ [NoCall EXCEPT !.who = who, !.op = op, !.ok = res.ok, !.val = res.val, !.err = res.err]

\* a collector nobody has called yet
FreshCollector == [shape |-> "none", flags |-> None, pre |-> 0, post |-> 0]

InitStream ==
    /\ platform \in {"ucred", "cmsgcred"}
    /\ rcvr \in Ends
    /\ pc = [e \in Ends |-> IF e = "c" THEN "start" ELSE "unaccepted"]
    /\ fd = [e \in Ends |-> "none"]
    /\ passcred = [e \in Ends |-> FALSE]
    /\ nonblock = [e \in Ends |-> FALSE]
    /\ nbMode = [e \in Ends |-> FALSE]
    /\ shut = [e \in Ends |-> {}]
    /\ rxq = << >>
    /\ nsent = 0
    /\ sent = 0
    /\ rlog = << >>
    /\ pend = None
    /\ last = NoCall
    /\ eofSeen = FALSE
    /\ coll = FreshCollector

(***************************************************************************)
(* UdStream::connect / _connect (lines 45-63)                              *)
(***************************************************************************)
\* the value line 60 hands to set_passcred
connect_passcred_off == FALSE
connect_passcred == TRUE

\* what becomes of the descriptor create_uds returned (line 55) when a later
\* `?` returns early: the local that owns it is dropped
early_return_fd_leaked == "open"
early_return_fd == "closed"

\* lines 53-59: the address conversion, create_uds and the connect call.
\* Each `?` is an early return; the descriptor, once created, is owned by a
\* local and is closed when the function returns early.
ConnectOpen ==
    /\ pc["c"] = "start"
    /\ \E nonblocking \in BOOLEAN,
          outcome \in {"addr_err", "socket_err", "connect_err", "ok"} :
        CASE outcome = "addr_err" ->
                /\ pc' = [pc EXCEPT !["c"] = "failed"]
                /\ last' = Call("c", "connect", OkOrRetErrno(FALSE, << >>, "ENAMETOOLONG"),
                            [events |-> << >>])
                /\ UNCHANGED << fd, nonblock, nbMode >>
          [] outcome = "socket_err" ->
                /\ pc' = [pc EXCEPT !["c"] = "failed"]
                /\ last' = Call("c", "connect", OkOrRetErrno(FALSE, << >>, "EMFILE"),
                            [events |-> <<"create_uds">>])
                /\ UNCHANGED << fd, nonblock, nbMode >>
          [] outcome = "connect_err" ->
                /\ pc' = [pc EXCEPT !["c"] = "failed"]
                /\ fd' = [fd EXCEPT !["c"] = early_return_fd]
                /\ last' = Call("c", "connect", OkOrRetErrno(FALSE, << >>, "ECONNREFUSED"),
                            [events |-> <<"create_uds", "connect">>])
                /\ UNCHANGED << nonblock, nbMode >>
          [] outcome = "ok" ->
                /\ pc' = [pc EXCEPT !["c"] = "connected"]
                /\ fd' = [fd EXCEPT !["c"] = "open", !["s"] = "open"]
                /\ nonblock' = [nonblock EXCEPT !["c"] = nonblocking]
                /\ nbMode' = [nbMode EXCEPT !["c"] = nonblocking]
                /\ UNCHANGED last
    /\ UNCHANGED << errVars, cmsgVars, platform, rcvr, passcred, shut, rxq, nsent, sent, rlog,
                    pend, eofSeen, coll >>

\* lines 60-62: set_passcred and the return of the stream
ConnectFinish ==
    /\ pc["c"] = "connected"
    /\ \E optOk \in BOOLEAN :
        IF optOk
        THEN /\ passcred' = [passcred EXCEPT !["c"] = connect_passcred]
             /\ pc' = [pc EXCEPT !["c"] = "idle"]
             /\ last' = Call("c", "connect", OkOrRetErrno(TRUE, << >>, "none"),
                         [events |-> <<"create_uds", "connect", "set_passcred">>])
             /\ UNCHANGED fd
        ELSE /\ pc' = [pc EXCEPT !["c"] = "failed"]
             /\ fd' = [fd EXCEPT !["c"] = early_return_fd]
             /\ last' = Call("c", "connect", OkOrRetErrno(FALSE, << >>, "ENOPROTOOPT"),
                         [events |-> <<"create_uds", "connect", "set_passcred">>])
             /\ UNCHANGED passcred
    /\ UNCHANGED << errVars, cmsgVars, platform, rcvr, nonblock, nbMode, shut, rxq, nsent, sent,
                    rlog, pend, eofSeen, coll >>

\* From<OwnedFd> for UdStream: the other end wraps the descriptor of the
\* socket the kernel queued for it when the connect call succeeded
Accept ==
    /\ pc["s"] = "unaccepted"
    /\ fd["s"] = "open"
    /\ pc' = [pc EXCEPT !["s"] = "idle"]
    /\ UNCHANGED << errVars, cmsgVars, platform, rcvr, fd, passcred, nonblock, nbMode, shut, rxq,
                    nsent, sent, rlog, pend, last, eofSeen, coll >>

(***************************************************************************)
(* The socket pair as sendmsg and recvmsg see it                           *)
(***************************************************************************)
\* the end that sends in this run
sndr == Peer(rcvr)

\* the bytes of a stream are numbered from 1 in the order they are written
Bytes(from, n) == [i \in 1 .. n |-> from + i]

\* The credentials record the kernel queues with the data of one sendmsg.
\* ucred: the sender's identity travels with the data when the sender attached
\* a record or either socket has the option on.  cmsgcred: a receiver with
\* the option on gets a sockcred in place of whatever was attached; without
\* it the attached cmsgcred travels.
QueuedRec_unattached(explicit) == None
QueuedRec(explicit) ==
    IF platform = "ucred"
    THEN (IF explicit \/ passcred[sndr] \/ passcred[rcvr]
          THEN Some(UCred(sndr)) ELSE None)
    ELSE (IF passcred[rcvr] THEN Some(SockCred(sndr))
          ELSE IF explicit THEN Some(CmsgCred(sndr)) ELSE None)

\* one sendmsg as it is queued: the bytes, the record that travels with them,
\* and how it was sent (length, whether the sender attached a record)
Segment(n, explicit) ==
    [rec |-> QueuedRec(explicit), explicit |-> explicit,
     data |-> Bytes(sent, n), len |-> n]

\* whether one recvmsg goes on from the segment `first` into `next`
Mergeable(first, next, want) ==
    IF platform = "ucred"
    THEN (~want) \/ next.rec = first.rec
    ELSE next.rec = None

\* what is left of a segment after its first k bytes were read
Remainder(h, k) ==
    [h EXCEPT !.data = SubSeq(h.data, k + 1, Len(h.data)),
              !.rec = IF platform = "ucred" THEN h.rec ELSE None]

RECURSIVE Take(_, _, _, _)
Take(q, cap, first, want) ==
    IF q = << >> \/ cap = 0 THEN [got |-> << >>, rest |-> q]
    ELSE LET h == Head(q) IN
         IF ~Mergeable(first, h, want) THEN [got |-> << >>, rest |-> q]
         ELSE IF Len(h.data) <= cap
         THEN LET r == Take(Tail(q), cap - Len(h.data), first, want)
              IN  [got |-> h.data \o r.got, rest |-> r.rest]
         ELSE [got |-> SubSeq(h.data, 1, cap),
               rest |-> << Remainder(h, cap) >> \o Tail(q)]

\* the record recvmsg hands over with data that starts in segment h
DeliveredRec(h) ==
    IF platform = "ucred"
    THEN (IF passcred[rcvr]
          THEN Some(IF h.rec = None THEN NobodyCred ELSE Unwrap(h.rec))
          ELSE None)
    ELSE h.rec

\* recvmsg on a non-empty queue: the bytes, what stays queued, the ancillary
\* records written to the buffer and msg_flags
Deliver(cap, acap) ==
    LET h == Head(rxq)
        t == IF Len(h.data) <= cap
             THEN LET r == Take(Tail(rxq), cap - Len(h.data), h, passcred[rcvr])
                  IN  [got |-> h.data \o r.got, rest |-> r.rest]
             ELSE [got |-> SubSeq(h.data, 1, cap),
                   rest |-> << Remainder(h, cap) >> \o Tail(rxq)]
        rec == DeliveredRec(h)
    IN  [flags |-> IF rec # None /\ acap = 0 THEN {"MSG_CTRUNC"} ELSE {}, got |-> t.got,
         rest |-> t.rest,
         abuf |-> IF acap >= 1 THEN rec ELSE None]

\* no byte will ever be added to the receive queue again
NoMoreData ==
    \/ fd[sndr] = "closed"
    \/ "wr" \in shut[sndr]
    \/ "rd" \in shut[rcvr]

\* recvmsg has something to return
Readable == rxq # << >> \/ NoMoreData

(***************************************************************************)
(* recv_ancillary / recv_ancillary_vectored (lines 72-95)                  *)
(***************************************************************************)
\* lines 90-94 with the value recvmsg or sendmsg returned, msg_controllen and
\* errno
syscall_result_unchecked(result, controllen, errno) ==
    OkOrRetErrno(TRUE, << AsUsize(result), controllen >>, errno)
syscall_result_swallowed(result, controllen, errno) ==
    OkOrRetErrno(TRUE, << IF result = -1 THEN 0 ELSE AsUsize(result), controllen >>,
                 errno)
syscall_result(result, controllen, errno) ==
    OkOrRetErrno(result # -1, << AsUsize(result), controllen >>, errno)

\* what the body of recv_ancillary_vectored calls, in order, once the header
\* was built
recv_steps == <<"recvmsg">>

\* the recvmsg of line 91 returns `raw` with `errno`, having written the
\* records `abuf` and `flags` to the header (lines 92-94)
RecvResult(cap, acap, raw, errno, abuf, flags) ==
    LET res == syscall_result(raw, Len(abuf), errno) IN
    /\ last' = Call(rcvr, "recv", res,
                    [errno |-> errno, events |-> recv_steps, raw |-> raw,
                     flags |-> flags, rec |-> abuf, cap |-> cap, acap |-> acap])
    /\ eofSeen' = (eofSeen \/ (res.ok /\ res.val[1] = 0))

\* recvmsg returns: an error, data, or the end of the stream
RecvReturn(cap, acap, errno) ==
    IF errno # "none"
    THEN /\ RecvResult(cap, acap, -1, errno, None, {})
         /\ UNCHANGED << rxq, rlog >>
    ELSE IF rxq # << >>
    THEN LET d == Deliver(cap, acap) IN
         /\ rxq' = d.rest
         /\ rlog' = rlog \o d.got
         /\ RecvResult(cap, acap, Len(d.got), "none", d.abuf, d.flags)
    ELSE /\ RecvResult(cap, acap, 0, "none", None, {})
         /\ UNCHANGED << rxq, rlog >>

\* whether a recvmsg called with flags 0 (line 91) that finds nothing to
\* return puts the caller to sleep
recv_suspends_always(e) == TRUE
recv_suspends(e) == ~nonblock[e]

RecvAncillary ==
    /\ pc[rcvr] = "idle"
    /\ \E cap \in 1 .. MaxBuf, acap \in 0 .. MaxAnc, hdrOk \in BOOLEAN :
        IF ~hdrOk
        THEN \* line 88: make_msghdr_r(bufs, abuf)? returns before any call
             /\ last' = Call(rcvr, "recv", OkOrRetErrno(FALSE, << >>, "EINVAL"),
                             [cap |-> cap, acap |-> acap])
             /\ UNCHANGED << pc, pend, rxq, rlog, eofSeen >>
        ELSE IF Readable
        THEN /\ RecvReturn(cap, acap, "none")
             /\ UNCHANGED << pc, pend >>
        ELSE IF recv_suspends(rcvr)
        THEN /\ pc' = [pc EXCEPT ![rcvr] = "recv_wait"]
             /\ pend' = Some([cap |-> cap, acap |-> acap])
             /\ UNCHANGED << last, rxq, rlog, eofSeen >>
        ELSE /\ RecvReturn(cap, acap, "EWOULDBLOCK")
             /\ UNCHANGED << pc, pend >>
    /\ UNCHANGED << errVars, cmsgVars, platform, rcvr, fd, passcred, nonblock, nbMode, shut,
                    nsent, sent, coll >>

\* the suspended recvmsg returns: something arrived, or a signal interrupted it
RecvWake ==
    /\ pc[rcvr] = "recv_wait"
    /\ \E interrupted \in BOOLEAN :
        LET b == Unwrap(pend) IN
        IF interrupted
        THEN RecvReturn(b.cap, b.acap, "EINTR")
        ELSE Readable /\ RecvReturn(b.cap, b.acap, "none")
    /\ pc' = [pc EXCEPT ![rcvr] = "idle"]
    /\ pend' = None
    /\ UNCHANGED << errVars, cmsgVars, platform, rcvr, fd, passcred, nonblock, nbMode, shut,
                    nsent, sent, coll >>

(***************************************************************************)
(* send_ancillary / send_ancillary_vectored (lines 104-124)                *)
(***************************************************************************)
send_steps == <<"sendmsg">>

\* sendmsg fails with EPIPE once this end or the other cannot carry data
Broken ==
    \/ "wr" \in shut[sndr]
    \/ "rd" \in shut[rcvr]
    \/ fd[rcvr] = "closed"

SendResult(n, explicit, raw, errno) ==
    last' = Call(sndr, "send",
                 syscall_result(raw, IF explicit THEN 1 ELSE 0, errno),
                 [errno |-> errno, events |-> send_steps, raw |-> raw, cap |-> n,
                  acap |-> IF explicit THEN 1 ELSE 0])

SendAncillary ==
    /\ pc[sndr] = "idle"
    /\ nsent < MaxSends
    /\ nsent' = nsent + 1
    /\ \E n \in 1 .. MaxMsg, explicit \in BOOLEAN, hdrOk \in BOOLEAN :
        IF ~hdrOk
        THEN \* line 117: make_msghdr_w(bufs, abuf)? returns before any call
             /\ last' = Call(sndr, "send", OkOrRetErrno(FALSE, << >>, "EINVAL"),
                             [cap |-> n, acap |-> IF explicit THEN 1 ELSE 0])
             /\ UNCHANGED << rxq, sent >>
        ELSE IF Broken
        THEN /\ SendResult(n, explicit, -1, "EPIPE")
             /\ UNCHANGED << rxq, sent >>
        ELSE /\ rxq' = Append(rxq, Segment(n, explicit))
             /\ sent' = sent + n
             /\ SendResult(n, explicit, n, "none")
    /\ UNCHANGED << errVars, cmsgVars, platform, rcvr, pc, fd, passcred, nonblock, nbMode,
                    shut, rlog, pend, eofSeen, coll >>

(***************************************************************************)
(* shutdown, set_nonblocking, is_nonblocking (lines 126-145)               *)
(***************************************************************************)
\* the directions shutdown(2) closes for a std::net::Shutdown value
ShutDirs_both(how) == {"rd", "wr"}
ShutDirs(how) ==
    CASE how = "Read"  -> {"rd"}
      [] how = "Write" -> {"wr"}
      [] how = "Both"  -> {"rd", "wr"}

\* A call that shuts a direction still open succeeds; one that names only
\* directions already shut succeeds or fails, depending on the platform.
\* Either way the directions stay shut.
Shutdown(e) ==
    /\ pc[e] = "idle"
    /\ \E how \in {"Read", "Write", "Both"}, ok \in BOOLEAN :
        /\ ok \/ ShutDirs(how) \subseteq shut[e]
        /\ shut' = [shut EXCEPT ![e] = shut[e] \cup ShutDirs(how)]
        /\ last' = Call(e, "shutdown", OkOrRetErrno(ok, << >>, "ENOTCONN"),
                        [errno |-> IF ok THEN "none" ELSE "ENOTCONN", events |-> <<"shutdown">>,
                         raw |-> IF ok THEN 0 ELSE -1, flags |-> shut[e],
                         how |-> how])
    /\ UNCHANGED << errVars, cmsgVars, platform, rcvr, pc, fd, passcred, nonblock, nbMode,
                    rxq, nsent, sent, rlog, pend, eofSeen, coll >>

\* the flag line 139 hands to c_wrappers::set_nonblocking
set_nonblocking_arg(nonblocking) == nonblocking

SetNonblocking ==
    /\ pc[rcvr] = "idle"
    /\ \E nonblocking \in BOOLEAN, ok \in BOOLEAN :
        /\ IF ok
           THEN /\ nonblock' = [nonblock EXCEPT ![rcvr] = set_nonblocking_arg(nonblocking)]
                /\ nbMode' = [nbMode EXCEPT ![rcvr] = nonblocking]
           ELSE UNCHANGED << nonblock, nbMode >>
        /\ last' = Call(rcvr, "set_nonblocking", OkOrRetErrno(ok, << >>, "EBADF"),
                        [errno |-> IF ok THEN "none" ELSE "EBADF", events |-> <<"fcntl">>,
                         raw |-> IF ok THEN 0 ELSE -1])
    /\ UNCHANGED << errVars, cmsgVars, platform, rcvr, pc, fd, passcred, shut, rxq, nsent,
                    sent, rlog, pend, eofSeen, coll >>

\* is_nonblocking (line 143) reads the flag back
IsNonblocking ==
    /\ pc[rcvr] = "idle"
    /\ last' = Call(rcvr, "is_nonblocking",
                    OkOrRetErrno(TRUE, << nonblock[rcvr] >>, "none"),
                    [events |-> <<"fcntl">>])
    /\ UNCHANGED << errVars, cmsgVars, platform, rcvr, pc, fd, passcred, nonblock, nbMode,
                    shut, rxq, nsent, sent, rlog, pend, eofSeen, coll >>

\* UdSocket::set_continuous_ancillary_credentials (the enable_passcred of the
\* test, line 23): sets the socket option of this socket
SetContinuousCredentials ==
    /\ pc[rcvr] = "idle"
    /\ \E on \in BOOLEAN :
        /\ passcred' = [passcred EXCEPT ![rcvr] = on]
        /\ last' = Call(rcvr, "set_continuous_ancillary_credentials",
                        OkOrRetErrno(TRUE, << >>, "none"),
                        [events |-> <<"setsockopt">>])
    /\ UNCHANGED << errVars, cmsgVars, platform, rcvr, pc, fd, nonblock, nbMode, shut, rxq,
                    nsent, sent, rlog, pend, eofSeen, coll >>

\* the owner drops the stream: the descriptor it owns (line 36) is closed
Close(e) ==
    /\ pc[e] = "idle"
    /\ pc' = [pc EXCEPT ![e] = "closed"]
    /\ fd' = [fd EXCEPT ![e] = "closed"]
    /\ rxq' = IF e = rcvr THEN << >> ELSE rxq
    /\ UNCHANGED << errVars, cmsgVars, platform, rcvr, passcred, nonblock, nbMode, shut,
                    nsent, sent, rlog, pend, last, eofSeen, coll >>

\* the data path of one connection: everything but shutdown
Next ==
    \/ ConnectOpen
    \/ ConnectFinish
    \/ Accept
    \/ RecvAncillary
    \/ RecvWake
    \/ SendAncillary
    \/ SetNonblocking
    \/ IsNonblocking
    \/ SetContinuousCredentials
    \/ \E e \in Ends : Close(e)

\* the end of one connection: blocking streams that keep the socket options
\* connect left them with, and shut directions down
NextShut ==
    \/ ConnectOpen
    \/ ConnectFinish
    \/ Accept
    \/ RecvAncillary
    \/ RecvWake
    \/ SendAncillary
    \/ \E e \in Ends : Shutdown(e)
    \/ \E e \in Ends : Close(e)

(***************************************************************************)
(* IterCollector (context.rs lines 89-120)                                 *)
(***************************************************************************)
\* values of msghdr_flags
MsgFlags == {0, 8}

\* a collector of the collection: an FnCollector whose closures count their
\* calls and keep the flags word they were given
NewItem == [flags |-> None, pre |-> 0, post |-> 0]
fn_pre_op_collect(item) == [item EXCEPT !.pre = @ + 1]
fn_post_op_collect(item, msghdr_flags) ==
    [item EXCEPT !.post = @ + 1, !.flags = Some(msghdr_flags)]

RECURSIVE pre_op_collect_from(_, _, _)
\* the loop of line 111 from the i-th item on
pre_op_collect_from(c, i, calls) ==
    IF i > Len(c) THEN [c |-> c, calls |-> calls]
    ELSE pre_op_collect_from(
             [c EXCEPT ![i] = fn_pre_op_collect(c[i])], i + 1,
             Append(calls, [flags |-> None, item |-> i, hook |-> "pre_op_collect"]))

RECURSIVE post_op_collect_from(_, _, _, _)
\* the loop of line 116 from the i-th item on
post_op_collect_from(c, msghdr_flags, i, calls) ==
    IF i > Len(c) THEN [c |-> c, calls |-> calls]
    ELSE post_op_collect_from(
             [c EXCEPT ![i] = fn_post_op_collect(c[i], msghdr_flags)], msghdr_flags, i + 1,
             Append(calls, [flags |-> Some(msghdr_flags), item |-> i,
                            hook |-> "post_op_collect"]))

\* IterCollector::pre_op_collect
pre_op_collect(c) == pre_op_collect_from(c, 1, << >>)

post_op_collect_skip_first(c, msghdr_flags) ==
    post_op_collect_from(c, msghdr_flags, 2, << >>)
\* IterCollector::post_op_collect
post_op_collect(c, msghdr_flags) == post_op_collect_from(c, msghdr_flags, 1, << >>)

InitColl ==
    /\ iterc = None
    /\ hooks = << >>
    /\ collOp = [op |-> "none", before |-> None, flags |-> None]
    /\ ncalls = 0

\* IterCollector::new(collection)
IterNew ==
    /\ iterc = None
    /\ \E n \in 0 .. MaxItems :
        iterc' = Some([i \in 1 .. n |-> NewItem])
    /\ collOp' = [op |-> "new", before |-> None, flags |-> None]
    /\ UNCHANGED << errVars, strmVars, bufVars, hooks, ncalls >>

IterPreOpCollect ==
    /\ IsSome(iterc)
    /\ ncalls < MaxHookCalls
    /\ ncalls' = ncalls + 1
    /\ iterc' = Some(pre_op_collect(Unwrap(iterc)).c)
    /\ hooks' = pre_op_collect(Unwrap(iterc)).calls
    /\ collOp' = [op |-> "pre_op_collect", before |-> iterc, flags |-> None]
    /\ UNCHANGED << errVars, strmVars, bufVars >>

IterPostOpCollect ==
    /\ IsSome(iterc)
    /\ ncalls < MaxHookCalls
    /\ ncalls' = ncalls + 1
    /\ \E msghdr_flags \in MsgFlags :
        /\ iterc' = Some(post_op_collect(Unwrap(iterc), msghdr_flags).c)
        /\ hooks' = post_op_collect(Unwrap(iterc), msghdr_flags).calls
        /\ collOp' = [op |-> "post_op_collect", before |-> iterc,
                      flags |-> Some(msghdr_flags)]
    /\ UNCHANGED << errVars, strmVars, bufVars >>

NextColl ==
    \/ IterNew
    \/ IterPreOpCollect
    \/ IterPostOpCollect

(***************************************************************************)
(* The ancillary buffer: add_message, clear, as_ref().decode()             *)
(* (credentials.rs lines 59-70, 96, 100).  A record is a level, a type and *)
(* a payload; on the wire it is a header holding its length, level and     *)
(* type, then the payload, padded to the alignment.                        *)
(***************************************************************************)
\* cells of the header of a record: length, level, type
HdrLen == 3
\* the alignment records are padded to
Align == 2

PayloadBytes == {0, 1}
Payloads == UNION {[1 .. n -> PayloadBytes] : n \in 0 .. MaxPayload}
Records == [level : {1}, type : {1, 2}, payload : Payloads]

\* a length rounded up to the alignment
AlignUp(n) == ((n + Align - 1) \div Align) * Align
\* the bytes one record takes in a buffer, padding included
cmsg_len_for_payload_size(n) == AlignUp(HdrLen + n)

Padding(n) == [i \in 1 .. n |-> 0]

\* the wire form of one record
Encode(r) ==
    << HdrLen + Len(r.payload), r.level, r.type >> \o r.payload
       \o Padding(cmsg_len_for_payload_size(Len(r.payload)) - (HdrLen + Len(r.payload)))

add_message_unpadded(buf, r) ==
    buf \o << HdrLen + Len(r.payload), r.level, r.type >> \o r.payload
\* CmsgVecBuf::add_message: appends the wire form of the record
add_message(buf, r) == buf \o Encode(r)

\* CmsgVecBuf::clear
clear(buf) == << >>

RECURSIVE decode_from(_, _)
\* the decoding iterator over the read view: the records it yields before it
\* ends, and the error it ends with, if any
decode_from(bytes, recs) ==
    IF bytes = << >> THEN [err |-> "none", recs |-> recs]
    ELSE IF Len(bytes) < HdrLen THEN [err |-> "truncated", recs |-> recs]
    ELSE LET len == bytes[1] IN
         IF len < HdrLen \/ len > Len(bytes) THEN [err |-> "invalid length", recs |-> recs]
         ELSE LET r == [level |-> bytes[2], type |-> bytes[3],
                        payload |-> SubSeq(bytes, HdrLen + 1, len)]
                  next == IF AlignUp(len) <= Len(bytes) THEN AlignUp(len) ELSE Len(bytes)
              IN  decode_from(SubSeq(bytes, next + 1, Len(bytes)), Append(recs, r))

decode(bytes) == decode_from(bytes, << >>)

InitBuf ==
    /\ cbuf = << >>
    /\ added = << >>
    /\ decoded = None
    /\ cbufOp = "new"

AddMessage ==
    /\ Len(added) < MaxRecs
    /\ \E r \in Records :
        /\ cbuf' = add_message(cbuf, r)
        /\ added' = Append(added, r)
    /\ decoded' = None
    /\ cbufOp' = "add_message"
    /\ UNCHANGED << errVars, strmVars, collVars >>

Clear ==
    /\ cbufOp # "new"
    /\ cbuf' = clear(cbuf)
    /\ added' = << >>
    /\ decoded' = None
    /\ cbufOp' = "clear"
    /\ UNCHANGED << errVars, strmVars, collVars >>

Decode ==
    /\ decoded' = Some(decode(cbuf))
    /\ cbufOp' = "decode"
    /\ UNCHANGED << errVars, strmVars, collVars, cbuf, added >>

NextBuf ==
    \/ AddMessage
    \/ Clear
    \/ Decode

vars == << errVars, strmVars, cmsgVars >>

Init == InitErr /\ InitStream /\ InitColl /\ InitBuf

\* one connection, its data path
Spec == Init /\ [][Next]_vars

\* one connection, its shutdown
SpecShut == Init /\ [][NextShut]_vars

\* one ConversionError value
SpecErr == Init /\ [][NextErr]_vars

\* one IterCollector
SpecColl == Init /\ [][NextColl]_vars

\* one ancillary buffer
SpecBuf == Init /\ [][NextBuf]_vars

(***************************************************************************)
(* Claims about ConversionError (checked under SpecErr)                    *)
(***************************************************************************)

\* C1 as stated: whatever operations were applied to the error since it was
\* constructed from the resource s, it still holds s.
C1_SourceHeldForever ==
    err # NoErr => err.source = passed

\* C1 (amended): the constructors store the resource they are given, and the
\* error keeps holding exactly that resource for as long as neither
\* map_source nor try_map_source has been applied to it; to_io_error only
\* borrows the error.
C1_SourceHeldUntilMapped ==
    /\ (err # NoErr /\ nmaps = 0) => (IsSome(err.source) /\ err.source = passed)
    /\ (errOp.op = "to_io_error") => err = errOp.before

C1_Witness ==
    /\ err # NoErr
    /\ errOp.op = "to_io_error"
    /\ nmaps = 0
    /\ IsSome(err.cause)
    /\ err.source = passed

\* C10: map_source and try_map_source leave cause and details as they were;
\* map_source turns a held resource s into f(s); the resource goes from held
\* to missing only in try_map_source, and only when f(s) is none.
C10_MapTouchesOnlySource ==
    LET b == errOp.before
        isMap == errOp.op \in {"map_source", "try_map_source"}
    IN  /\ isMap => /\ err.details = b.details
                    /\ err.cause = b.cause
        /\ (errOp.op = "map_source" /\ IsSome(b.source)) =>
               err.source = Some(Unwrap(errOp.f)[Unwrap(b.source)])
        /\ (errOp.op = "try_map_source" /\ IsSome(b.source)) =>
               err.source = Unwrap(errOp.f)[Unwrap(b.source)]
        /\ (isMap /\ IsSome(b.source) /\ ~IsSome(err.source)) =>
               /\ errOp.op = "try_map_source"
               /\ Unwrap(errOp.f)[Unwrap(b.source)] = None

C10_Witness ==
    /\ errOp.op = "try_map_source"
    /\ IsSome(errOp.before.source)
    /\ ~IsSome(err.source)
    /\ IsSome(err.cause)
    /\ err.cause = errOp.before.cause

\* C11: the text of an error is the text of its details, followed, when it
\* has a cause, by the text of the cause, with ": " between the two exactly
\* when the details text is not empty; it never begins with ": ".
C11_DisplayText ==
    (errOp.op \in {"to_io_error", "into_io_error"}) =>
        LET e == errOp.before
            msg == Unwrap(errOp.out).msg
            D == IF e.details = "Phase" THEN <<"b", "i", "n", "d">> ELSE << >>
            C == IF e.cause = None THEN << >>
                 ELSE IF Unwrap(e.cause) = "ENOENT" THEN <<"E", "2">> ELSE <<"E", "1">>
        IN  /\ Unwrap(errOp.out).kind = "Other"
            /\ (e.cause # None /\ D # << >>) => msg = D \o <<":", " ">> \o C
            /\ (e.cause # None /\ D = << >>) => msg = C
            /\ e.cause = None => msg = D
            /\ ~(Len(msg) >= 2 /\ msg[1] = ":" /\ msg[2] = " ")

C11_Witness ==
    /\ errOp.op = "to_io_error"
    /\ err.details = "Phase"
    /\ err.cause = Some("ENOENT")
    /\ Unwrap(errOp.out).msg = <<"b", "i", "n", "d", ":", " ", "E", "2">>

(***************************************************************************)
(* Claims about the data path of a connection (checked under Spec)         *)
(***************************************************************************)

\* C2: every recv_ancillary / send_ancillary call that reaches its system
\* call runs pre_op_collect, then recvmsg or sendmsg, then post_op_collect
\* with the msg_flags of that same call, and an Ok result carries both byte
\* counts.
C2_HooksAroundSyscall ==
    (last.op \in {"recv", "send"} /\ last.events # << >>) =>
        /\ last.events = << "pre_op_collect",
                            IF last.op = "recv" THEN "recvmsg" ELSE "sendmsg",
                            "post_op_collect" >>
        /\ coll.pre >= 1
        /\ coll.flags = Some(last.flags)
        /\ last.ok => Len(last.val) = 2

\* C3 as stated: a receive call that starts at data sent with a credentials
\* record returns exactly the N bytes of that send call and exactly one
\* record, which names the sender.
C3_ExactlyNAndOneRecord ==
    [][ (rlog' # rlog /\ Head(rxq).explicit /\ Len(Head(rxq).data) = Head(rxq).len) =>
            /\ last'.op = "recv" /\ last'.ok
            /\ last'.val[1] = Head(rxq).len
            /\ Len(last'.rec) = 1
            /\ Unwrap(last'.rec).ruid = Ident[sndr].uid
            /\ Unwrap(last'.rec).rgid = Ident[sndr].gid ]_vars

\* C3 (amended): a receive call that starts at data sent with a credentials
\* record returns min(N, capacity) bytes of it first, exactly N when the
\* buffer holds N and nothing else is queued behind; it returns exactly one
\* record, naming the sender's real uid and gid and, when it carries a pid,
\* the sender's pid, if the ancillary buffer has room for a record and (on
\* the ucred platform) the receiver's option is on, and otherwise no record
\* at all.  No receive call returns a record without at least one byte.
C3_DataWithItsRecord ==
    [][ /\ (rlog' # rlog /\ Head(rxq).explicit /\ Len(Head(rxq).data) = Head(rxq).len) =>
            LET h == Head(rxq)
                r == last'
                room == r.acap >= 1 /\ (platform = "ucred" => passcred[rcvr])
            IN  /\ r.op = "recv" /\ r.ok
                /\ r.val[1] = Len(rlog') - Len(rlog)
                /\ r.val[1] <= r.cap
                /\ r.cap <= h.len => r.val[1] = r.cap
                /\ r.cap >= h.len => r.val[1] >= h.len
                /\ (r.cap >= h.len /\ Len(rxq) = 1) => r.val[1] = h.len
                /\ SubSeq(rlog', Len(rlog) + 1, Len(rlog) + (IF r.cap <= h.len THEN r.cap ELSE h.len))
                       = SubSeq(h.data, 1, IF r.cap <= h.len THEN r.cap ELSE h.len)
                /\ room => /\ Len(r.rec) = 1
                           /\ r.val[2] = 1
                           /\ Unwrap(r.rec).ruid = Ident[sndr].uid
                           /\ Unwrap(r.rec).rgid = Ident[sndr].gid
                           /\ IsSome(Unwrap(r.rec).pid) =>
                                  Unwrap(Unwrap(r.rec).pid) = Ident[sndr].pid
                /\ ~room => r.rec = None /\ r.val[2] = 0
        /\ (last'.op = "recv" /\ last'.rec # None) =>
                (last'.ok /\ last'.val[1] >= 1 /\ (last' # last => rlog' # rlog))
      ]_vars

C3_Witness ==
    /\ last.op = "recv" /\ last.ok
    /\ last.val = << 2, 1 >>
    /\ last.cap = 2
    /\ platform = "cmsgcred"
    /\ last.rec = Some(CmsgCred(sndr))
    /\ nsent = 1
    /\ rlog = << 1, 2 >>

\* C4: on the cmsgcred platform, whenever a stream with the option on
\* receives a credentials record, its collector holds the wire shape of that
\* record, recorded by the hooks of that receive call.
C4_ShapeFromCollector ==
    (platform = "cmsgcred" /\ passcred[rcvr] /\ last.op = "recv" /\ last.rec # None) =>
        /\ coll.post >= 1
        /\ coll.shape = Unwrap(last.rec).shape

\* C5: connect calls create_uds, connect and set_passcred in that order, and
\* the stream of an Ok return has the option on; a failing call stopped at
\* the step that failed.
C5_ConnectEnablesPasscred ==
    /\ (last.op = "connect" /\ last.ok) =>
            /\ last.events = << "create_uds", "connect", "set_passcred" >>
            /\ passcred["c"]
            /\ pc["c"] \notin {"start", "connected", "failed"}
    /\ (last.op = "connect" /\ ~last.ok) =>
            /\ last.events = SubSeq(<< "create_uds", "connect", "set_passcred" >>,
                                    1, Len(last.events))
            /\ ~passcred["c"]
            /\ pc["c"] = "failed"

C5_Witness ==
    /\ last.op = "connect" /\ last.ok
    /\ passcred["c"]
    /\ fd["c"] = "open"
    /\ pc["c"] = "idle"

\* C6 as stated: every recv_ancillary / send_ancillary call issues exactly
\* one recvmsg or sendmsg; a -1 from it is returned as Err with its errno,
\* anything else as Ok with the byte count.
C6_ExactlyOneSyscall ==
    last.op \in {"recv", "send"} =>
        /\ last.events = << IF last.op = "recv" THEN "recvmsg" ELSE "sendmsg" >>
        /\ last.raw = -1 => (~last.ok /\ last.err = last.errno)
        /\ last.raw # -1 => (last.ok /\ last.val[1] = last.raw)

\* C6 (amended): a call whose message header cannot be built returns that
\* error without any system call; every other call issues exactly one
\* recvmsg or sendmsg, and a -1 from it is returned as Err with its errno,
\* anything else as Ok with the byte count.
C6_AtMostOneSyscall ==
    last.op \in {"recv", "send"} =>
        /\ last.events \in {<< >>, << IF last.op = "recv" THEN "recvmsg" ELSE "sendmsg" >>}
        /\ last.events = << >> => (~last.ok /\ last.err = "EINVAL")
        /\ last.events # << >> =>
                /\ last.raw = -1 => (~last.ok /\ last.err = last.errno /\ last.err # "none")
                /\ last.raw # -1 => (last.ok /\ last.val[1] = last.raw /\ last.raw >= 0)

C6_Witness ==
    /\ last.op = "send"
    /\ last.events = << "sendmsg" >>
    /\ last.raw = -1
    /\ ~last.ok
    /\ last.err = "EPIPE"

C14_FailedConnectLeavesNothing ==
    /\ (last.op = "connect" /\ ~last.ok) =>
            /\ pc["c"] = "failed"
            /\ last.val = << >>
            /\ last.err = (CASE last.events = << >> -> "ENAMETOOLONG"
                              [] last.events = << "create_uds" >> -> "EMFILE"
                              [] last.events = << "create_uds", "connect" >> -> "ECONNREFUSED"
                              [] OTHER -> "ENOPROTOOPT")
            /\ fd["c"] = (IF Len(last.events) >= 2 THEN "closed" ELSE "none")
    /\ pc["c"] = "failed" =>
            /\ fd["c"] \in {"none", "closed"}
            /\ ~passcred["c"]
            /\ (last.who = "c" => last.op = "connect" /\ ~last.ok)
    /\ fd["c"] = "open" => pc["c"] \in {"connected", "idle", "recv_wait"}

C14_Witness ==
    /\ last.op = "connect" /\ ~last.ok
    /\ last.err = "ENOPROTOOPT"
    /\ last.events = << "create_uds", "connect", "set_passcred" >>
    /\ fd["c"] = "closed"
    /\ fd["s"] = "open"
    /\ pc["c"] = "failed"

(***************************************************************************)
(* Claims about shutdown and the end of the stream (checked under SpecShut)*)
(***************************************************************************)

\* C8: a shutdown call fails only when every direction it names was shut
\* before, and the directions it names are shut afterwards either way;
\* shutdown(Write) leaves the read direction as it was.  The bytes a stream
\* has received are a prefix of what the peer sent, a stream that has not
\* shut its read direction sees the end only after the peer shut its write
\* direction or closed and after receiving everything, and the record of a
\* segment comes with its first byte, whether or not the receiver has shut
\* its write direction.
C8_ShutdownKeepsOtherDirection ==
    [][ /\ (last'.op = "shutdown") =>
                /\ ~last'.ok => (last'.how = "Read" => "rd" \in last'.flags)
                                /\ (last'.how = "Write" => "wr" \in last'.flags)
                                /\ (last'.how = "Both" => last'.flags = {"rd", "wr"})
                /\ last'.how = "Read" => shut'[last'.who] = last'.flags \cup {"rd"}
                /\ last'.how = "Write" => shut'[last'.who] = last'.flags \cup {"wr"}
                /\ last'.how = "Both" => shut'[last'.who] = {"rd", "wr"}
        /\ rlog' = Bytes(0, Len(rlog'))
        /\ Len(rlog') <= sent'
        /\ (eofSeen' /\ "rd" \notin shut'[rcvr]) =>
                /\ Len(rlog') = sent'
                /\ fd'[sndr] = "closed" \/ "wr" \in shut'[sndr]
        /\ (rlog' # rlog /\ "wr" \in shut[rcvr]) =>
                /\ last'.ok
                /\ last'.val[1] = Len(rlog') - Len(rlog)
                /\ (last'.acap >= 1 /\ Head(rxq).rec # None
                      /\ (platform = "ucred" => passcred[rcvr])) =>
                        last'.rec = Head(rxq).rec
      ]_vars

C8_Witness ==
    /\ "wr" \in shut[rcvr]
    /\ "rd" \notin shut[rcvr]
    /\ last.op = "recv" /\ last.ok /\ last.val[1] = 0
    /\ eofSeen
    /\ sent = 3
    /\ Len(rlog) = 3

\* C9 as stated: a receive call returns Ok with zero bytes only after the
\* peer has shut its write direction or closed, with everything the peer
\* sent received; afterwards every receive call returns zero bytes.
C9_ZeroOnlyAfterPeerShutdown ==
    eofSeen =>
        /\ fd[sndr] = "closed" \/ "wr" \in shut[sndr]
        /\ Len(rlog) = sent
        /\ (last.op = "recv" /\ last.ok) => last.val[1] = 0

\* C9 (amended): a receive call returns Ok with zero bytes only after the
\* peer has shut its write direction or closed, or the stream has shut its
\* own read direction, with everything the peer wrote received; afterwards
\* no more data can arrive and every receive call that returns Ok returns
\* zero bytes.
C9_ZeroOnlyAtEndOfStream ==
    eofSeen =>
        /\ fd[sndr] = "closed" \/ "wr" \in shut[sndr] \/ "rd" \in shut[rcvr]
        /\ Len(rlog) = sent
        /\ rxq = << >>
        /\ (last.op = "recv" /\ last.ok) => last.val[1] = 0
        /\ (last.op = "send" /\ last.events # << >>) => ~last.ok

C9_Witness ==
    /\ eofSeen
    /\ last.op = "recv" /\ last.ok /\ last.val[1] = 0
    /\ "wr" \in shut[sndr]
    /\ shut[rcvr] = {}
    /\ sent = 2
    /\ rlog = << 1, 2 >>

(***************************************************************************)
(* Claims about IterCollector (checked under SpecColl)                     *)
(***************************************************************************)

\* C12: one pre_op_collect call on an IterCollector calls pre_op_collect
\* once on each collector of the collection, in iteration order, and no
\* post_op_collect; one post_op_collect call calls post_op_collect once on
\* each, in the same order and with the flags word it was given, and no
\* pre_op_collect.
C12_EachItemOnceInOrder ==
    (collOp.op \in {"pre_op_collect", "post_op_collect"}) =>
        LET b == Unwrap(collOp.before)
            now == Unwrap(iterc)
            isPre == collOp.op = "pre_op_collect"
        IN  /\ Len(now) = Len(b)
            /\ Len(hooks) = Len(b)
            /\ \A i \in 1 .. Len(b) :
                /\ hooks[i].item = i
                /\ hooks[i].hook = collOp.op
                /\ hooks[i].flags = collOp.flags
                /\ now[i].pre = b[i].pre + (IF isPre THEN 1 ELSE 0)
                /\ now[i].post = b[i].post + (IF isPre THEN 0 ELSE 1)
                /\ now[i].flags = (IF isPre THEN b[i].flags ELSE collOp.flags)

C12_Witness ==
    /\ collOp.op = "post_op_collect"
    /\ collOp.flags = Some(8)
    /\ Len(Unwrap(iterc)) = 3
    /\ Len(hooks) = 3
    /\ \A i \in 1 .. 3 : Unwrap(iterc)[i] = [flags |-> Some(8), pre |-> 1, post |-> 1]

(***************************************************************************)
(* Claims about the ancillary buffer (checked under SpecBuf)               *)
(***************************************************************************)

\* C13: decoding a buffer composed by add_message calls on a new or cleared
\* buffer yields exactly the records added, in the order they were added,
\* and then ends without an error; a cleared buffer is empty.
C13_RoundTrip ==
    /\ (cbufOp = "decode") =>
            /\ Unwrap(decoded).recs = added
            /\ Unwrap(decoded).err = "none"
    /\ (cbufOp = "clear") => (cbuf = << >> /\ added = << >>)

C13_Witness ==
    /\ cbufOp = "decode"
    /\ Len(added) = 2
    /\ Len(added[1].payload) = 2
    /\ Len(added[2].payload) = 1
    /\ added[1].type # added[2].type
    /\ Unwrap(decoded).recs = added
    /\ Len(cbuf) = 10

====
